---------------------------- MODULE Spec2Model ----------------------------
(***************************************************************************)
(* Model of the EVM logging instructions LOG0..LOG4 of the Frontier fork   *)
(* (src/ethereum/frontier/vm/instructions/log.py).                         *)
(*                                                                         *)
(* log_n is modelled statement by statement: the program counter pc names  *)
(* the next statement of log_n to run, so that the point where an          *)
(* exception leaves the function decides which mutations have happened.    *)
(* The frame (stack, memory, gas_left, current, logs) is the Evm object.   *)
(*                                                                         *)
(* The machine word is 256 bits wide in the program.  TLC's integers are   *)
(* 32 bits wide, so the word is scaled down to WordBits bits; every        *)
(* operation on words is checked against U256_MAX_VALUE = 2^WordBits - 1   *)
(* exactly as the program checks against 2^256 - 1.                        *)
(***************************************************************************)
EXTENDS Integers, Naturals, Sequences, FiniteSets, TLC

\* ------------------------------------------------------------------ bounds
\* width of the machine word in the model (256 in the program)
WordBits == 11

\* deepest stack the initial frames have (LOG4 needs 2 + 4 words)
MaxStack == 6

\* ------------------------------------------------- words and their helpers
RECURSIVE Pow2(_)
Pow2(n) == IF n = 0 THEN 1 ELSE 2 * Pow2(n - 1)

\* U256.MAX_VALUE
U256_MAX_VALUE == Pow2(WordBits) - 1

\* the value that stands for "the operation raised" in checked arithmetic
Raised == -1

\* U256.__add__: the sum, or an error when it leaves the word range
U256_add(a, b) ==
    IF a = Raised \/ b = Raised THEN Raised
    ELSE IF a + b > U256_MAX_VALUE THEN Raised
    ELSE a + b

\* U256.__mul__: the product, or an error when it leaves the word range
U256_mul(a, b) ==
    IF a = Raised \/ b = Raised THEN Raised
    ELSE IF a * b > U256_MAX_VALUE THEN Raised
    ELSE a * b

\* mutant of ArithmeticFailure: the arithmetic's own error leaves log_n
ArithmeticFailure_Overflow == "OverflowError"

\* the failure that checked fee arithmetic signals when it leaves the range
ArithmeticFailure == "OutOfGasError"

\* U256.to_be_bytes(n): the n low-order bytes of w, most significant first
RECURSIVE to_be_bytes(_, _)
to_be_bytes(w, n) ==
    IF n = 0 THEN << >>
    ELSE Append(to_be_bytes(w \div 256, n - 1), w % 256)

\* U256.to_be_bytes32
to_be_bytes32(w) == to_be_bytes(w, 32)

\* ceil32: the next multiple of 32
ceil32(v) == ((v + 31) \div 32) * 32

\* ----------------------------------------------------------- gas schedule
GAS_LOG == 375
GAS_LOG_DATA == 8
GAS_LOG_TOPIC == 375
GAS_MEMORY == 3

\* calculate_memory_gas_cost: linear plus quadratic cost of a memory size
calculate_memory_gas_cost(size_in_bytes) ==
    LET size_in_words == ceil32(size_in_bytes) \div 32
        total == size_in_words * GAS_MEMORY
                 + (size_in_words * size_in_words) \div 512
    IN IF total > U256_MAX_VALUE THEN Raised ELSE total

\* calculate_gas_extend_memory: the fee for growing memory of length
\* memory_len so that it covers [start_position, start_position + size)
calculate_gas_extend_memory(memory_len, start_position, sz) ==
    IF sz = 0 THEN 0
    ELSE LET before_size == ceil32(memory_len)
             after_size == ceil32(start_position + sz)
         IN IF after_size <= before_size THEN 0
            ELSE LET already_paid == calculate_memory_gas_cost(before_size)
                     total_cost == calculate_memory_gas_cost(after_size)
                 IN IF total_cost = Raised THEN Raised
                    ELSE total_cost - already_paid

\* n zero bytes
Zeros(n) == [i \in 1..n |-> 0]

\* extend_memory: memory grown with zero bytes to cover the range
extend_memory(mem, start_position, sz) ==
    IF sz = 0 THEN mem
    ELSE LET new_size == ceil32(start_position + sz)
         IN IF new_size <= Len(mem) THEN mem
            ELSE mem \o Zeros(new_size - Len(mem))

\* the smaller of two numbers
Min(a, b) == IF a <= b THEN a ELSE b

\* memory_read_bytes: the slice memory[start_position : start_position + sz],
\* which ends where memory ends
memory_read_bytes(mem, start_position, sz) ==
    LET avail == IF Len(mem) > start_position THEN Len(mem) - start_position
                 ELSE 0
    IN [i \in 1..Min(sz, avail) |-> mem[start_position + i]]

\* ----------------------------------------------------------------- inputs
\* the words a stack may hold: the range's ends and small values
Words == {0, 2, U256_MAX_VALUE \div GAS_LOG_DATA, U256_MAX_VALUE}

\* the words the initial stacks hold below their top two
TopicWords == {2, U256_MAX_VALUE}

\* the initial stacks; the top of the stack is the end of the sequence
StackInputs ==
    UNION {
      { s \in [1..n -> Words] :
          \A i \in 1..n : (i < n - 1) => s[i] \in TopicWords }
      : n \in 0..MaxStack }

\* the initial gas balances
GasInputs == {400, 1200, U256_MAX_VALUE}

\* the initial memories: empty, or one 32-byte word that starts DE AD BE EF
DeadBeef == <<222, 173, 190, 239>> \o Zeros(28)
MemoryInputs == { << >>, DeadBeef }

\* the addresses a frame may run
Addresses == {"a1", "a2"}

\* ------------------------------------------------------------------ state
VARIABLES
    stack,               \* evm.stack, top at the end
    memory,              \* evm.memory, a byte sequence
    gas_left,            \* evm.gas_left
    current,             \* evm.current
    logs,                \* evm.logs
    pc,                  \* the next statement of log_n, "idle" outside a call
    num_topics,          \* log_n's parameter
    memory_start_index,  \* log_n's local
    size,                \* log_n's local
    log_entry,           \* log_n's local
    outcome,             \* how the last call ended
    pre                  \* the frame when the last call started

vars == << stack, memory, gas_left, current, logs, pc, num_topics,
           memory_start_index, size, log_entry, outcome, pre >>

frame == << stack, memory, gas_left, current, logs >>
locals == << num_topics, memory_start_index, size, log_entry >>

NoEntry == [address |-> "none", topics |-> << >>, data |-> << >>]

Init ==
    /\ stack \in StackInputs
    /\ memory \in MemoryInputs
    /\ gas_left \in GasInputs
    /\ current \in Addresses
    /\ logs = << >>
    /\ pc = "idle"
    /\ num_topics = 0
    /\ memory_start_index = 0
    /\ size = 0
    /\ log_entry = NoEntry
    /\ outcome = "none"
    /\ pre = [stack |-> stack, memory |-> memory, gas_left |-> gas_left,
              logs |-> logs]

\* ------------------------------------------------------------- the stack
\* pop: the top word
Top(s) == s[Len(s)]
\* pop: the stack without its top word
Popped(s) == SubSeq(s, 1, Len(s) - 1)

\* the exception leaves log_n: the call is over, the frame stays as it is
Raise(e) ==
    /\ outcome' = e
    /\ pc' = "idle"

\* ------------------------------------------------------------------ log_n
\* mutant of gas_cost: the per-byte and per-topic rates are swapped
gas_cost_SwappedRates(memory_len, start_index, sz, n) ==
    U256_add(
      U256_add(
        U256_add(GAS_LOG, U256_mul(GAS_LOG_TOPIC, sz)),
        U256_mul(GAS_LOG_DATA, n)),
      calculate_gas_extend_memory(memory_len, start_index, sz))

\* mutant of gas_cost: every sum and product wraps at the word width
gas_cost_Wrapping(memory_len, start_index, sz, n) ==
    (GAS_LOG + GAS_LOG_DATA * sz + GAS_LOG_TOPIC * n
     + calculate_gas_extend_memory(memory_len, start_index, sz))
    % (U256_MAX_VALUE + 1)

\* mutant of gas_cost: the per-byte product wraps at the word width
gas_cost_WrappingMul(memory_len, start_index, sz, n) ==
    U256_add(
      U256_add(
        U256_add(GAS_LOG, (GAS_LOG_DATA * sz) % (U256_MAX_VALUE + 1)),
        U256_mul(GAS_LOG_TOPIC, n)),
      calculate_gas_extend_memory(memory_len, start_index, sz))

\* gas_cost of log_n: the four fee terms, added in the word range
gas_cost(memory_len, start_index, sz, n) ==
    U256_add(
      U256_add(
        U256_add(GAS_LOG, U256_mul(GAS_LOG_DATA, sz)),
        U256_mul(GAS_LOG_TOPIC, n)),
      calculate_gas_extend_memory(memory_len, start_index, sz))

\* log_n(evm, num_topics): the entry into log_n with num_topics = n
Call(n) ==
    /\ pc = "idle"
    /\ pc' = "pop_start"
    /\ num_topics' = n
    /\ outcome' = "running"
    /\ pre' = [stack |-> stack, memory |-> memory, gas_left |-> gas_left,
               logs |-> logs]
    /\ memory_start_index' = 0
    /\ size' = 0
    /\ log_entry' = NoEntry
    /\ UNCHANGED frame

\* memory_start_index = Uint(pop(evm.stack))
PopStart ==
    /\ pc = "pop_start"
    /\ IF Len(stack) = 0
       THEN /\ Raise("StackUnderflowError")
            /\ UNCHANGED << stack, memory_start_index >>
       ELSE /\ memory_start_index' = Top(stack)
            /\ stack' = Popped(stack)
            /\ pc' = "pop_size"
            /\ UNCHANGED outcome
    /\ UNCHANGED << memory, gas_left, current, logs, num_topics, size,
                    log_entry, pre >>

\* size = pop(evm.stack)
PopSize ==
    /\ pc = "pop_size"
    /\ IF Len(stack) = 0
       THEN /\ Raise("StackUnderflowError")
            /\ UNCHANGED << stack, size >>
       ELSE /\ size' = Top(stack)
            /\ stack' = Popped(stack)
            /\ pc' = "charge"
            /\ UNCHANGED outcome
    /\ UNCHANGED << memory, gas_left, current, logs, num_topics,
                    memory_start_index, log_entry, pre >>

\* mutant of ChargeGas: memory is extended before the gas is subtracted
ChargeGas_ExtendFirst ==
    /\ pc = "charge"
    /\ memory' = extend_memory(memory, memory_start_index, size)
    /\ LET cost == gas_cost(Len(memory), memory_start_index, size, num_topics)
       IN IF cost = Raised
          THEN /\ Raise(ArithmeticFailure)
               /\ UNCHANGED gas_left
          ELSE IF gas_left < cost
          THEN /\ Raise("OutOfGasError")
               /\ UNCHANGED gas_left
          ELSE /\ gas_left' = gas_left - cost
               /\ pc' = "extend"
               /\ UNCHANGED outcome
    /\ UNCHANGED << stack, current, logs, locals, pre >>

\* mutant of ChargeGas: a fee the balance cannot pay is not charged and the
\* call goes on
ChargeGas_NoDebitOnFail ==
    /\ pc = "charge"
    /\ LET cost == gas_cost(Len(memory), memory_start_index, size, num_topics)
       IN IF cost = Raised
          THEN /\ Raise(ArithmeticFailure)
               /\ UNCHANGED gas_left
          ELSE /\ gas_left' = IF gas_left < cost THEN gas_left
                              ELSE gas_left - cost
               /\ pc' = "extend"
               /\ UNCHANGED outcome
    /\ UNCHANGED << stack, memory, current, logs, locals, pre >>

\* mutant of ChargeGas: a fee the balance cannot pay takes all the gas left
ChargeGas_DrainOnFail ==
    /\ pc = "charge"
    /\ LET cost == gas_cost(Len(memory), memory_start_index, size, num_topics)
       IN IF cost = Raised
          THEN /\ Raise(ArithmeticFailure)
               /\ gas_left' = 0
          ELSE IF gas_left < cost
          THEN /\ Raise("OutOfGasError")
               /\ gas_left' = 0
          ELSE /\ gas_left' = gas_left - cost
               /\ pc' = "extend"
               /\ UNCHANGED outcome
    /\ UNCHANGED << stack, memory, current, logs, locals, pre >>

\* mutant of ChargeGas: the fee is subtracted without comparing it with the
\* balance
ChargeGas_Unchecked ==
    /\ pc = "charge"
    /\ LET cost == gas_cost(Len(memory), memory_start_index, size, num_topics)
       IN IF cost = Raised
          THEN /\ Raise(ArithmeticFailure)
               /\ UNCHANGED gas_left
          ELSE /\ gas_left' = gas_left - cost
               /\ pc' = "extend"
               /\ UNCHANGED outcome
    /\ UNCHANGED << stack, memory, current, logs, locals, pre >>

\* mutant of ChargeGas: the fee grows with the records the frame already holds
ChargeGas_LogSurcharge ==
    /\ pc = "charge"
    /\ LET cost == U256_add(gas_cost(Len(memory), memory_start_index, size,
                                     num_topics),
                            Len(logs))
       IN IF cost = Raised
          THEN /\ Raise(ArithmeticFailure)
               /\ UNCHANGED gas_left
          ELSE IF gas_left < cost
          THEN /\ Raise("OutOfGasError")
               /\ UNCHANGED gas_left
          ELSE /\ gas_left' = gas_left - cost
               /\ pc' = "extend"
               /\ UNCHANGED outcome
    /\ UNCHANGED << stack, memory, current, logs, locals, pre >>

\* gas_cost = ...; evm.gas_left = subtract_gas(evm.gas_left, gas_cost)
ChargeGas ==
    /\ pc = "charge"
    /\ LET cost == gas_cost(Len(memory), memory_start_index, size, num_topics)
       IN IF cost = Raised
          THEN /\ Raise(ArithmeticFailure)
               /\ UNCHANGED gas_left
          ELSE IF gas_left < cost
          THEN /\ Raise("OutOfGasError")
               /\ UNCHANGED gas_left
          ELSE /\ gas_left' = gas_left - cost
               /\ pc' = "extend"
               /\ UNCHANGED outcome
    /\ UNCHANGED << stack, memory, current, logs, locals, pre >>

\* mutant of ExtendMemory: the end of the range wraps at the word width
ExtendMemory_Wrapped ==
    /\ pc = "extend"
    /\ memory' = extend_memory(memory, 0,
                               (memory_start_index + size) % (U256_MAX_VALUE + 1))
    /\ pc' = "entry"
    /\ UNCHANGED << stack, gas_left, current, logs, locals, outcome, pre >>

\* mutant of ExtendMemory: memory grows by the size's words on every call
ExtendMemory_AlwaysAppend ==
    /\ pc = "extend"
    /\ memory' = memory \o Zeros(ceil32(size))
    /\ pc' = "entry"
    /\ UNCHANGED << stack, gas_left, current, logs, locals, outcome, pre >>

\* mutant of ExtendMemory: memory is grown up to the offset also for size 0
ExtendMemory_ToOffset ==
    /\ pc = "extend"
    /\ memory' = IF ceil32(memory_start_index + size) <= Len(memory) THEN memory
                 ELSE memory \o Zeros(ceil32(memory_start_index + size)
                                      - Len(memory))
    /\ pc' = "entry"
    /\ UNCHANGED << stack, gas_left, current, logs, locals, outcome, pre >>

\* extend_memory(evm.memory, memory_start_index, size)
ExtendMemory ==
    /\ pc = "extend"
    /\ memory' = extend_memory(memory, memory_start_index, size)
    /\ pc' = "entry"
    /\ UNCHANGED << stack, gas_left, current, logs, locals, outcome, pre >>

\* mutant of MakeEntry: the payload is read from the start of memory
MakeEntry_ReadFromZero ==
    /\ pc = "entry"
    /\ log_entry' = [address |-> current,
                     topics |-> << >>,
                     data |-> memory_read_bytes(memory, 0, size)]
    /\ pc' = "topics"
    /\ UNCHANGED << frame, num_topics, memory_start_index, size, outcome, pre >>

\* log_entry = Log(address=evm.current, topics=[], data=memory_read_bytes(...))
MakeEntry ==
    /\ pc = "entry"
    /\ log_entry' = [address |-> current,
                     topics |-> << >>,
                     data |-> memory_read_bytes(memory, memory_start_index, size)]
    /\ pc' = "topics"
    /\ UNCHANGED << frame, num_topics, memory_start_index, size, outcome, pre >>

\* mutant of PopTopic: the topic is inserted at the front of the list
PopTopic_Prepend ==
    /\ pc = "topics"
    /\ Len(log_entry.topics) < num_topics
    /\ IF Len(stack) = 0
       THEN /\ Raise("StackUnderflowError")
            /\ UNCHANGED << stack, log_entry >>
       ELSE /\ log_entry' = [log_entry EXCEPT
                               !.topics = << to_be_bytes32(Top(stack)) >> \o @]
            /\ stack' = Popped(stack)
            /\ UNCHANGED << pc, outcome >>
    /\ UNCHANGED << memory, gas_left, current, logs, num_topics,
                    memory_start_index, size, pre >>

\* a sequence back to front
Reverse(s) == [i \in 1..Len(s) |-> s[Len(s) + 1 - i]]

\* mutant of PopTopic: the topic's bytes are least significant first
PopTopic_LittleEndian ==
    /\ pc = "topics"
    /\ Len(log_entry.topics) < num_topics
    /\ IF Len(stack) = 0
       THEN /\ Raise("StackUnderflowError")
            /\ UNCHANGED << stack, log_entry >>
       ELSE /\ log_entry' = [log_entry EXCEPT
                               !.topics = Append(@, Reverse(to_be_bytes32(Top(stack))))]
            /\ stack' = Popped(stack)
            /\ UNCHANGED << pc, outcome >>
    /\ UNCHANGED << memory, gas_left, current, logs, num_topics,
                    memory_start_index, size, pre >>

\* mutant of PopTopic: the topic is read from the top of the stack and left
\* there
PopTopic_Peek ==
    /\ pc = "topics"
    /\ Len(log_entry.topics) < num_topics
    /\ IF Len(stack) = 0
       THEN /\ Raise("StackUnderflowError")
            /\ UNCHANGED << stack, log_entry >>
       ELSE /\ log_entry' = [log_entry EXCEPT
                               !.topics = Append(@, to_be_bytes32(Top(stack)))]
            /\ UNCHANGED << stack, pc, outcome >>
    /\ UNCHANGED << memory, gas_left, current, logs, num_topics,
                    memory_start_index, size, pre >>

\* one round of the loop: topic = pop(evm.stack).to_be_bytes32(); append it
PopTopic ==
    /\ pc = "topics"
    /\ Len(log_entry.topics) < num_topics
    /\ IF Len(stack) = 0
       THEN /\ Raise("StackUnderflowError")
            /\ UNCHANGED << stack, log_entry >>
       ELSE /\ log_entry' = [log_entry EXCEPT
                               !.topics = Append(@, to_be_bytes32(Top(stack)))]
            /\ stack' = Popped(stack)
            /\ UNCHANGED << pc, outcome >>
    /\ UNCHANGED << memory, gas_left, current, logs, num_topics,
                    memory_start_index, size, pre >>

\* mutant of AppendLog: the entry is appended inside the topic loop
AppendLog_Early ==
    /\ pc = "topics"
    /\ logs' = Append(logs, log_entry)
    /\ outcome' = "success"
    /\ pc' = "idle"
    /\ UNCHANGED << stack, memory, gas_left, current, locals, pre >>

\* mutant of AppendLog: the entry replaces the log list
AppendLog_Replace ==
    /\ pc = "topics"
    /\ Len(log_entry.topics) = num_topics
    /\ logs' = << log_entry >>
    /\ outcome' = "success"
    /\ pc' = "idle"
    /\ UNCHANGED << stack, memory, gas_left, current, locals, pre >>

\* evm.logs.append(log_entry)
AppendLog ==
    /\ pc = "topics"
    /\ Len(log_entry.topics) = num_topics
    /\ logs' = Append(logs, log_entry)
    /\ outcome' = "success"
    /\ pc' = "idle"
    /\ UNCHANGED << stack, memory, gas_left, current, locals, pre >>

\* mutant of log3: the binding of log4 copied
log3_AsLog4 == Call(4)

\* log0 = partial(log_n, num_topics=0) ... log4 = partial(log_n, num_topics=4)
log0 == Call(0)
log1 == Call(1)
log2 == Call(2)
log3 == Call(3)
log4 == Call(4)

Next ==
    \/ log0
    \/ log1
    \/ log2
    \/ log3
    \/ log4
    \/ PopStart
    \/ PopSize
    \/ ChargeGas
    \/ ExtendMemory
    \/ MakeEntry
    \/ PopTopic
    \/ AppendLog

Spec == Init /\ [][Next]_vars

TypeOK ==
    /\ pc \in {"idle", "pop_start", "pop_size", "charge", "extend", "entry",
               "topics"}
    /\ gas_left \in 0..U256_MAX_VALUE
    /\ num_topics \in 0..4
    /\ Len(stack) <= MaxStack


\* ------------------------------------------------ the frame before a call
\* a call of log_n has ended
Finished == pc = "idle" /\ outcome # "none"

\* the word the call pops first (the memory offset), when there is one
PreOffset == pre.stack[Len(pre.stack)]
\* the word the call pops second (the size), when there is one
PreSize == pre.stack[Len(pre.stack) - 1]
\* the i-th word the call pops after offset and size
PreTopic(i) == pre.stack[Len(pre.stack) - 1 - i]

\* the bytes of mem at [off, off + sz), memory beyond its end reading as zero
BytesAt(mem, off, sz) ==
    [i \in 1..sz |-> IF off + i <= Len(mem) THEN mem[off + i] ELSE 0]

\* the memory-growth fee in unbounded integers
TrueGrowthFee(memory_len, off, sz) ==
    LET words(b) == ceil32(b) \div 32
        cost(b) == words(b) * GAS_MEMORY + (words(b) * words(b)) \div 512
    IN IF sz = 0 \/ ceil32(off + sz) <= ceil32(memory_len) THEN 0
       ELSE cost(off + sz) - cost(memory_len)

\* the sum of the four fee terms in unbounded integers
TrueFee(memory_len, off, sz, n) ==
    GAS_LOG + GAS_LOG_DATA * sz + GAS_LOG_TOPIC * n
    + TrueGrowthFee(memory_len, off, sz)

\* the record the last call appended
LastLog == logs[Len(logs)]

\* ----------------------------------------------------------------- claims

\* C1: with fewer than 2 + topicCount words on the stack the call fails with
\* stack-underflow and nothing is mutated: no word popped, gas, memory
\* extent and logs unchanged.
C1_UnderflowPrecedence ==
    (Finished /\ Len(pre.stack) < 2 + num_topics) =>
        /\ outcome = "StackUnderflowError"
        /\ stack = pre.stack
        /\ gas_left = pre.gas_left
        /\ Len(memory) = Len(pre.memory)
        /\ logs = pre.logs

\* C2: when the gas balance is less than the computed fee the call fails
\* with out-of-gas; logs and memory are as before the call and only offset
\* and size have been popped (no topic word).
C2_OutOfGasAtomic ==
    (/\ Finished
     /\ Len(pre.stack) >= 2
     /\ gas_cost(Len(pre.memory), PreOffset, PreSize, num_topics) # Raised
     /\ pre.gas_left < gas_cost(Len(pre.memory), PreOffset, PreSize, num_topics))
    =>  /\ outcome = "OutOfGasError"
        /\ logs = pre.logs
        /\ memory = pre.memory
        /\ gas_left = pre.gas_left
        /\ stack = Popped(Popped(pre.stack))

\* C2 witness: an out-of-gas call of LOG2 whose range lay beyond memory
C2_Witness ==
    /\ Finished
    /\ outcome = "OutOfGasError"
    /\ num_topics = 2
    /\ Len(pre.stack) >= 4
    /\ PreSize = 2
    /\ PreOffset + PreSize > Len(pre.memory)
    /\ pre.gas_left = 400

\* C3: a successful call extends logs by exactly one record: address is the
\* frame's current address, it has num_topics topics, and its payload is the
\* popped size long and equals the memory bytes at [offset, offset + size).
C3_OneRecord ==
    (Finished /\ outcome = "success") =>
        /\ Len(pre.stack) >= 2 + num_topics
        /\ Len(logs) = Len(pre.logs) + 1
        /\ SubSeq(logs, 1, Len(pre.logs)) = pre.logs
        /\ LastLog.address = current
        /\ Len(LastLog.topics) = num_topics
        /\ Len(LastLog.data) = PreSize
        /\ LastLog.data = BytesAt(pre.memory, PreOffset, PreSize)
        /\ LastLog.data = BytesAt(memory, PreOffset, PreSize)

\* C3 witness: a successful LOG4 whose payload is the bytes BE EF
C3_Witness ==
    /\ Finished
    /\ outcome = "success"
    /\ num_topics = 4
    /\ LastLog.data = <<190, 239>>
    /\ Len(logs) = 1

\* C4 as stated: LOG2 on a stack that is, from top to bottom, topicB,
\* topicA, size, offset, with memory holding D at [offset, offset + size),
\* appends a record with topics [topicA, topicB] and payload D.
C4_AsStated ==
    (/\ Finished
     /\ outcome = "success"
     /\ num_topics = 2
     /\ Len(pre.stack) >= 4)
    =>  LET n == Len(pre.stack)
            topicB == pre.stack[n]
            topicA == pre.stack[n - 1]
            sz == pre.stack[n - 2]
            off == pre.stack[n - 3]
        IN (off + sz <= Len(pre.memory)) =>
             /\ LastLog.topics = << to_be_bytes32(topicA), to_be_bytes32(topicB) >>
             /\ LastLog.data = BytesAt(pre.memory, off, sz)

\* C4 (amended): LOG2 with sufficient gas on a stack that is, from top to
\* bottom, offset, size, topicA, topicB, with memory holding D at
\* [offset, offset + size), succeeds and appends exactly one record: address
\* the current contract, topics [topicA, topicB], payload D.
C4_StackLayout ==
    (/\ Finished
     /\ num_topics = 2
     /\ Len(pre.stack) >= 4
     /\ PreOffset + PreSize <= Len(pre.memory)
     /\ pre.gas_left >= GAS_LOG + GAS_LOG_DATA * PreSize + GAS_LOG_TOPIC * 2)
    =>  /\ outcome = "success"
        /\ logs = Append(pre.logs,
                         [address |-> current,
                          topics |-> << to_be_bytes32(PreTopic(1)),
                                        to_be_bytes32(PreTopic(2)) >>,
                          data |-> BytesAt(pre.memory, PreOffset, PreSize)])

\* C4 witness: a successful LOG2 with two different topics and a payload
\* that was already in memory
C4_Witness ==
    /\ Finished
    /\ outcome = "success"
    /\ num_topics = 2
    /\ Len(pre.stack) >= 4
    /\ PreTopic(1) # PreTopic(2)
    /\ PreSize = 2
    /\ PreOffset = 0
    /\ Len(pre.memory) = 32
    /\ LastLog.data = <<222, 173>>

\* C5: in a successful call the i-th word popped after offset and size is
\* the i-th topic of the appended record, as its 32-byte big-endian value.
C5_TopicOrder ==
    (Finished /\ outcome = "success") =>
        /\ Len(LastLog.topics) = num_topics
        /\ \A i \in 1..num_topics :
             /\ Len(LastLog.topics[i]) = 32
             /\ \A k \in 1..30 : LastLog.topics[i][k] = 0
             /\ LastLog.topics[i][31] * 256 + LastLog.topics[i][32] = PreTopic(i)
             /\ LastLog.topics[i][32] < 256

\* C5 witness: a successful LOG3 whose first and last popped topics differ
C5_Witness ==
    /\ Finished
    /\ outcome = "success"
    /\ num_topics = 3
    /\ PreTopic(1) = 2
    /\ PreTopic(3) = U256_MAX_VALUE

\* C6: a successful call debits exactly base fee + per-byte fee * size +
\* per-topic fee * topicCount + the memory-growth fee; LOG0 with size 0 and
\* offset 0 debits the base fee only.
C6_FeeCharged ==
    (Finished /\ outcome = "success") =>
        /\ pre.gas_left - gas_left
             = GAS_LOG + GAS_LOG_DATA * PreSize + GAS_LOG_TOPIC * num_topics
               + TrueGrowthFee(Len(pre.memory), PreOffset, PreSize)
        /\ (num_topics = 0 /\ PreSize = 0 /\ PreOffset = 0)
             => pre.gas_left - gas_left = GAS_LOG

\* C6 witness: a successful LOG2 with a payload that made memory grow
C6_Witness ==
    /\ Finished
    /\ outcome = "success"
    /\ num_topics = 2
    /\ PreSize = 2
    /\ Len(memory) > Len(pre.memory)
    /\ pre.gas_left - gas_left > GAS_LOG + GAS_LOG_DATA * 2 + GAS_LOG_TOPIC * 2

\* C7: the fee debited is the true sum of the four terms, never that sum
\* wrapped; when the true sum is beyond the word range the call fails
\* without debiting gas, growing memory or appending a record.
C7_FeeOverflow ==
    (Finished /\ Len(pre.stack) >= 2) =>
        LET fee == TrueFee(Len(pre.memory), PreOffset, PreSize, num_topics)
        IN /\ (outcome = "success") => pre.gas_left - gas_left = fee
           /\ (fee > U256_MAX_VALUE) =>
                /\ outcome # "success"
                /\ gas_left = pre.gas_left
                /\ memory = pre.memory
                /\ logs = pre.logs

\* C7 witness: a call with the largest gas balance whose per-byte term fits
\* the word range while the sum of the terms does not
C7_Witness ==
    /\ Finished
    /\ Len(pre.stack) >= 2
    /\ pre.gas_left = U256_MAX_VALUE
    /\ GAS_LOG_DATA * PreSize <= U256_MAX_VALUE
    /\ TrueFee(Len(pre.memory), PreOffset, PreSize, num_topics) > U256_MAX_VALUE
    /\ outcome # "success"

\* C8: for a nonzero size the upper bound of the range is the integer
\* offset + size, also when that is 2^WordBits or more: once memory has been
\* grown it covers [0, offset + size), and the fee debited holds the growth
\* fee up to that bound.
C8_WideRange ==
    /\ (pc \in {"entry", "topics"} /\ size # 0) =>
          /\ Len(memory) >= memory_start_index + size
          /\ Len(memory) >= Len(pre.memory)
          /\ Len(memory) > Len(pre.memory)
               => Len(memory) = ceil32(memory_start_index + size)
          /\ pre.gas_left - gas_left
               = TrueFee(Len(pre.memory), memory_start_index, size, num_topics)
    /\ (Finished /\ outcome = "success" /\ PreSize # 0) =>
          Len(memory) >= PreOffset + PreSize

\* C8 witness: a successful call whose offset + size is beyond the word range
C8_Witness ==
    /\ Finished
    /\ outcome = "success"
    /\ PreSize # 0
    /\ PreOffset + PreSize > U256_MAX_VALUE
    /\ Len(memory) = ceil32(PreOffset + PreSize)

SizeProbes == Words \cup {Min(size + 1, U256_MAX_VALUE)}

\* a fee that left the word range counts as larger than every fee
FeeLeq(a, b) == b = Raised \/ (a # Raised /\ a <= b)

\* C10: for a fixed memory extent and offset the fee for (size', n') is not
\* less than the fee for (size, n) whenever size' >= size and n' >= n.
C10_FeeMonotone ==
    (pc = "charge") =>
        \A sz2 \in SizeProbes : \A n2 \in 0..4 :
            (sz2 >= size /\ n2 >= num_topics) =>
                FeeLeq(gas_cost(Len(memory), memory_start_index, size, num_topics),
                       gas_cost(Len(memory), memory_start_index, sz2, n2))

\* C10 witness: a fee is being computed for a size and an arity that both
\* have larger values to compare with, and a larger size costs strictly more
C10_Witness ==
    /\ pc = "charge"
    /\ size = 2
    /\ num_topics = 1
    /\ Len(memory) = 32
    /\ gas_cost(Len(memory), memory_start_index, 3, 2) # Raised
    /\ gas_cost(Len(memory), memory_start_index, 3, 2)
         > gas_cost(Len(memory), memory_start_index, 2, 1)


\* the fee of the running or last call has been debited
Debited ==
    /\ Len(pre.stack) >= 2
    /\ gas_left = pre.gas_left
                  - TrueFee(Len(pre.memory), PreOffset, PreSize, num_topics)

\* memory is the memory before the call, grown with zeros to cover the range
Grown ==
    /\ Len(pre.stack) >= 2
    /\ LET target == IF PreSize = 0 \/ ceil32(PreOffset + PreSize) <= Len(pre.memory)
                     THEN Len(pre.memory)
                     ELSE ceil32(PreOffset + PreSize)
       IN memory = BytesAt(pre.memory, 0, target)

\* the number of words the running or last call has popped
PoppedCount == Len(pre.stack) - Len(stack)

\* C11: in every call, failing or not, the gas debit comes before memory
\* growth, memory growth before any topic pop, and the log append last; memory
\* never has grown and no record has been appended without the fee debited.
C11_SideEffectOrder ==
    /\ (pc \in {"pop_start", "pop_size", "charge"}) =>
          /\ gas_left = pre.gas_left
          /\ memory = pre.memory
          /\ logs = pre.logs
    /\ (pc = "extend") =>
          /\ Debited
          /\ memory = pre.memory
          /\ PoppedCount = 2
          /\ logs = pre.logs
    /\ (pc = "entry") => (Debited /\ Grown /\ PoppedCount = 2 /\ logs = pre.logs)
    /\ (pc = "topics") => (Debited /\ Grown /\ logs = pre.logs)
    /\ (memory # pre.memory) => Debited
    /\ (PoppedCount > 2) => (Debited /\ Grown)
    /\ (logs # pre.logs) =>
          /\ Debited
          /\ Grown
          /\ PoppedCount = 2 + num_topics
          /\ pc = "idle"
          /\ outcome = "success"

\* C11 witness: a call that failed in the topic loop after its fee was
\* debited and memory had grown
C11_Witness ==
    /\ Finished
    /\ outcome = "StackUnderflowError"
    /\ PoppedCount > 2
    /\ Len(memory) > Len(pre.memory)
    /\ gas_left < pre.gas_left
    /\ logs = pre.logs


\* C12: after any sequence of calls every record has as many topics as the
\* arity (0..4) of the call that appended it; a record is appended only by a
\* call that popped its full topic set and whose fee was debited, and a call
\* that underflows while popping topics appends nothing.
C12_NoPartialRecords ==
    /\ \A k \in 1..Len(logs) :
          /\ Len(logs[k].topics) \in 0..4
          /\ \A t \in 1..Len(logs[k].topics) : Len(logs[k].topics[t]) = 32
    /\ (logs # pre.logs) =>
          /\ Len(logs) = Len(pre.logs) + 1
          /\ SubSeq(logs, 1, Len(pre.logs)) = pre.logs
          /\ Len(LastLog.topics) = num_topics
          /\ \A i \in 1..num_topics : LastLog.topics[i] = to_be_bytes32(PreTopic(i))
          /\ PoppedCount = 2 + num_topics
          /\ Debited
    /\ (outcome \in {"running", "StackUnderflowError", "OutOfGasError"}) =>
          logs = pre.logs

\* C12 witness: a call that underflowed with some of its topics popped, on a
\* frame that already held a record, and appended nothing
C12_Witness ==
    /\ Finished
    /\ outcome = "StackUnderflowError"
    /\ Len(log_entry.topics) >= 1
    /\ Len(log_entry.topics) < num_topics
    /\ Len(logs) >= 1
    /\ logs = pre.logs


\* C13: when a call fails with out-of-gas the stack is the stack before the
\* call without its top two words (offset and size), every topic word and
\* all below still there, and the gas balance is as before the call.
C13_OutOfGasStack ==
    (Finished /\ outcome = "OutOfGasError") =>
        /\ Len(pre.stack) >= 2
        /\ Len(stack) = Len(pre.stack) - 2
        /\ \A i \in 1..Len(stack) : stack[i] = pre.stack[i]
        /\ gas_left = pre.gas_left

\* C13 witness: an out-of-gas LOG3 that leaves its three topics and a word
\* below them on the stack
C13_Witness ==
    /\ Finished
    /\ outcome = "OutOfGasError"
    /\ num_topics = 3
    /\ Len(pre.stack) = 6
    /\ Len(stack) = 4
    /\ pre.gas_left > 0


\* C14: the log sequence before a call is a prefix of the log sequence at
\* every later point of the call, its records unchanged; the sequence is one
\* record longer after a success and as long as before after a failure.
C14_AppendOnly ==
    /\ Len(logs) >= Len(pre.logs)
    /\ \A k \in 1..Len(pre.logs) : logs[k] = pre.logs[k]
    /\ (Finished /\ outcome = "success") => Len(logs) = Len(pre.logs) + 1
    /\ (Finished /\ outcome # "success") => Len(logs) = Len(pre.logs)
    /\ (outcome = "running") => Len(logs) = Len(pre.logs)

\* C14 witness: a successful call on a frame that already held two records
C14_Witness ==
    /\ Finished
    /\ outcome = "success"
    /\ Len(pre.logs) = 2
    /\ Len(logs) = 3
    /\ logs[1] = pre.logs[1]


\* the range of the running or last call lies inside memory as it was
RangeCovered ==
    /\ Len(pre.stack) >= 2
    /\ PreOffset + PreSize <= Len(pre.memory)

\* C15: the memory extent never decreases and the bytes in memory before a
\* call are never changed; when [offset, offset + size) is inside the extent
\* the call leaves memory as it is and its growth fee is zero.
C15_MemoryMonotone ==
    /\ Len(memory) >= Len(pre.memory)
    /\ SubSeq(memory, 1, Len(pre.memory)) = pre.memory
    /\ RangeCovered =>
          /\ memory = pre.memory
          /\ calculate_gas_extend_memory(Len(pre.memory), PreOffset, PreSize) = 0
          /\ (pc \in {"extend", "entry", "topics"} \/ outcome = "success") =>
                pre.gas_left - gas_left
                  = GAS_LOG + GAS_LOG_DATA * PreSize + GAS_LOG_TOPIC * num_topics

\* C15 witness: a successful call whose range lay inside memory that an
\* earlier call had grown
C15_Witness ==
    /\ Finished
    /\ outcome = "success"
    /\ Len(pre.memory) > 32
    /\ PreSize = 2
    /\ RangeCovered
    /\ memory = pre.memory


\* C16: the gas balance is never negative and never above its value before
\* the call; it is below that value only in a call whose debit succeeded, and
\* a call that fails with out-of-gas leaves it as it was.
C16_GasNonIncreasing ==
    /\ gas_left >= 0
    /\ gas_left <= pre.gas_left
    /\ (gas_left < pre.gas_left) =>
          /\ Debited
          /\ pre.gas_left
               >= TrueFee(Len(pre.memory), PreOffset, PreSize, num_topics)
          /\ pc \in {"extend", "entry", "topics", "idle"}
          /\ outcome # "OutOfGasError"
    /\ (Finished /\ outcome = "OutOfGasError") => gas_left = pre.gas_left

\* C16 witness: an out-of-gas call on a frame whose balance an earlier
\* successful call had reduced
C16_Witness ==
    /\ Finished
    /\ outcome = "OutOfGasError"
    /\ Len(logs) = 1
    /\ gas_left = pre.gas_left
    /\ gas_left \notin GasInputs


\* C17: a successful call of arity num_topics removes exactly the top
\* 2 + num_topics words of the stack and leaves every word below them as it
\* was; no step of a call changes the frame's current address.
C17_FrameEffect ==
    /\ [] ((Finished /\ outcome = "success") =>
             /\ Len(pre.stack) >= 2 + num_topics
             /\ Len(stack) = Len(pre.stack) - (2 + num_topics)
             /\ \A i \in 1..Len(stack) : stack[i] = pre.stack[i])
    /\ [][current' = current]_vars

\* C17 witness: a successful LOG2 that leaves two words on the stack
C17_Witness ==
    /\ Finished
    /\ outcome = "success"
    /\ num_topics = 2
    /\ Len(pre.stack) = 6
    /\ stack = << pre.stack[1], pre.stack[2] >>


\* C18: a call with size 0, at any offset, leaves memory as it is, is charged
\* no growth fee and no per-byte fee, and on success appends a record with an
\* empty payload.
C18_ZeroLength ==
    (outcome # "none" /\ Len(pre.stack) >= 2 /\ PreSize = 0) =>
        /\ memory = pre.memory
        /\ (pc \in {"extend", "entry", "topics"} \/ outcome = "success") =>
              pre.gas_left - gas_left = GAS_LOG + GAS_LOG_TOPIC * num_topics
        /\ (Finished /\ outcome = "OutOfGasError") =>
              pre.gas_left < GAS_LOG + GAS_LOG_TOPIC * num_topics
        /\ (Finished /\ outcome = "success") => LastLog.data = << >>

\* C18 witness: a successful call with size 0 at the largest offset on a
\* frame with empty memory
C18_Witness ==
    /\ Finished
    /\ outcome = "success"
    /\ PreSize = 0
    /\ PreOffset = U256_MAX_VALUE
    /\ pre.memory = << >>
    /\ LastLog.data = << >>


\* the fee and the decision of a call as a function of nothing but the
\* offset, the size, the arity, the memory extent and the gas balance
FeeDecision(off, sz, n, memory_len, gas) ==
    LET fee == TrueFee(memory_len, off, sz, n)
    IN IF fee > U256_MAX_VALUE \/ gas < fee
       THEN [charged |-> FALSE, fee |-> 0]
       ELSE [charged |-> TRUE, fee |-> fee]

\* C19: the fee charged and the success / out-of-gas decision of a call are
\* the same function of the popped offset and size, the arity, the memory
\* extent and the gas balance in every frame, whatever the topic words, the
\* words deeper in the stack, the memory contents, the address and the
\* records already logged; so two frames that agree on the five agree on both.
C19_FeeDeterminism ==
    (/\ Len(pre.stack) >= 2
     /\ pc \in {"extend", "entry", "topics"} \/ Finished)
    =>  LET d == FeeDecision(PreOffset, PreSize, num_topics,
                             Len(pre.memory), pre.gas_left)
        IN /\ d.charged <=> (outcome \in {"running", "success",
                                          "StackUnderflowError"})
           /\ pre.gas_left - gas_left = d.fee

\* C19 witness: a call charged on a frame with records already logged,
\* memory that is not all zero, the second address and words left on the
\* stack
C19_Witness ==
    /\ Finished
    /\ outcome = "success"
    /\ Len(pre.logs) = 1
    /\ current = "a2"
    /\ pre.memory # << >>
    /\ pre.memory[1] = 222
    /\ num_topics >= 1
    /\ Len(stack) >= 1
    /\ gas_left < pre.gas_left


\* a step of the variant v starts a call of log_n with arity n on the frame
\* as it is
StartsLogN(v, n) ==
    v => /\ pc = "idle"
         /\ pc' = "pop_start"
         /\ num_topics' = n
         /\ UNCHANGED frame

\* C20: log0, log1, log2, log3 and log4 are log_n with arity 0, 1, 2, 3 and
\* 4; every call is a call of one of the five and no call has another arity.
C20_VariantTable ==
    /\ [][/\ StartsLogN(log0, 0)
          /\ StartsLogN(log1, 1)
          /\ StartsLogN(log2, 2)
          /\ StartsLogN(log3, 3)
          /\ StartsLogN(log4, 4)]_vars
    /\ [][(pc = "idle" /\ pc' # "idle")
            => (log0 \/ log1 \/ log2 \/ log3 \/ log4)]_vars
    /\ [](num_topics \in 0..4)

\* C20 witness: log3 has just been called on a frame on which log0 had
\* succeeded before
C20_Witness ==
    /\ pc = "pop_start"
    /\ num_topics = 3
    /\ Len(logs) = 1
    /\ Len(logs[1].topics) = 0
    /\ stack # << >>

=============================================================================
